---- MODULE Spec2Model ----
(***************************************************************************)
(* Model of utils/GQL_Queries/github_wrappers.py: RepoWrapper.pull_requests *)
(* (paged fetch, event wrapping), the PRWrapper derived properties and      *)
(* RepoWrapper.reviewer_team_actions.                                       *)
(*                                                                          *)
(* Timestamps are counted in ticks of TickSeconds seconds since an epoch;   *)
(* hour metrics are kept in tenths of an hour (round(x, 1) * 10).           *)
(* Optional values: a raw dict key that may be missing is a sequence of     *)
(* length 0 (missing) or 1 (present).                                       *)
(***************************************************************************)
EXTENDS Integers, Sequences, FiniteSets, TLC

VARIABLES
    reviewer_teams,   \* RepoWrapper.reviewer_teams: [tier1, tier2] -> set of logins
    remote,           \* the PR nodes the remote repository holds, in query order
    caller,           \* which public method is running
    count,            \* pull_requests argument count
    block_count,      \* pull_requests argument / local block_count
    fetched,          \* pull_requests local fetched
    gql_pr_cursor,    \* pull_requests local gql_pr_cursor (position in remote, 0 = None)
    pr_nodes,         \* pull_requests local pr_nodes
    request,          \* variable_values of the gql_session.execute call in progress
    pc,               \* position of the running method
    error,            \* exception that ended the method, "" when none
    prws,             \* dict returned by pull_requests, in insertion order
    cache,            \* cached_property values of the PRWrappers, keyed by position in prws
    reviewer_team_member_actions  \* dict built by reviewer_team_actions

vars == <<reviewer_teams, remote, caller, count, block_count, fetched,
          gql_pr_cursor, pr_nodes, request, pc, error, prws, cache,
          reviewer_team_member_actions>>

----------------------------------------------------------------------------
(* Bounds of the model *)

MaxCount == 3
MaxBlock == 3
MaxEvents == 3
MaxTime == 2

(* Program constants *)

SECONDS_TO_HOURS == 3600
DefaultBlockCount == 50
TickSeconds == SECONDS_TO_HOURS \div 3

Min(a, b) == IF a < b THEN a ELSE b

----------------------------------------------------------------------------
(* Optional values *)

Missing == <<>>
Present(x) == <<x>>
Has(o) == Len(o) > 0
Get(o) == o[1]

(* Result of evaluating a property: None, a value, or a raised exception *)
NoneValue == [tag |-> "None", v |-> 0]
Val(x) == [tag |-> "Val", v |-> x]
Raised(name) == [tag |-> name, v |-> 0]

----------------------------------------------------------------------------
(* Raw records returned by the remote query *)

RawEvent(typename, author, actor, createdAt, state) ==
    [typename |-> typename, author |-> author, actor |-> actor,
     createdAt |-> createdAt, state |-> state]

IssueComment(login, t) == RawEvent("IssueComment", Present(login), Missing, t, Missing)
PullRequestReview(login, t, st) ==
    RawEvent("PullRequestReview", Present(login), Missing, t, Present(st))
ConvertToDraftEvent(login, t) ==
    RawEvent("ConvertToDraftEvent", Missing, Present(login), t, Missing)
ReadyForReviewEvent(login, t) ==
    RawEvent("ReadyForReviewEvent", Missing, Present(login), t, Missing)

PRNode(number, author, createdAt, isDraft, mergedAt, events) ==
    [url |-> <<"github.com", "org", "repo", "pull", number>>,
     author |-> author, createdAt |-> createdAt, isDraft |-> isDraft,
     mergedAt |-> mergedAt, timelineItems |-> events]

RECURSIVE SeqsUpTo(_, _)
SeqsUpTo(S, n) ==
    IF n = 0 THEN {<<>>}
    ELSE LET shorter == SeqsUpTo(S, n - 1)
         IN  shorter \cup {Append(s, x) : s \in {q \in shorter : Len(q) = n - 1}, x \in S}

----------------------------------------------------------------------------
(* Wrapped events: EventWrapper and its subclasses *)

EVENT_CLASS_MAP ==
    [IssueComment |-> "PRCommentWrapper",
     PullRequestReview |-> "PRReviewWrapper",
     ConvertToDraftEvent |-> "DraftWrapper",
     ReadyForReviewEvent |-> "ReadyWrapper"]

Event(class, author, created_at, state) ==
    [class |-> class, author |-> author, created_at |-> created_at, state |-> state]

(* Mutant: no event is taken for a codecov comment *)
IsCodecov_never(e) == FALSE

(* True when the codecov check of the event loop skips the raw event *)
IsCodecov(e) == Has(e.author) /\ Get(e.author) = "codecov"

(* True when the PR loop skips the PR node *)
IsPyup(pr_node) == pr_node.author = "pyup-bot"

(* Mutant: an event of a type that is not in the map is passed over *)
WrapEvent_skipping_unknown(e) ==
    IF e.typename \notin DOMAIN EVENT_CLASS_MAP THEN [err |-> "", ev |-> <<>>]
    ELSE [err |-> "",
          ev |-> <<Event(EVENT_CLASS_MAP[e.typename],
                         Get(IF Has(e.author) THEN e.author ELSE e.actor),
                         e.createdAt, e.state)>>]

(* One pass of the event loop body over a raw event that is not skipped:     *)
(* the class lookup, the author/actor standardisation and the constructor    *)
(* call of event_class with e as keyword arguments, which must be exactly the *)
(* attributes of the class.                                                  *)
WrapEvent(e) ==
    IF e.typename \notin DOMAIN EVENT_CLASS_MAP THEN [err |-> "KeyError", ev |-> <<>>]
    ELSE LET class == EVENT_CLASS_MAP[e.typename]
             standardise == Has(e.author) \/ Has(e.actor)
             \* e.pop("author", {}).get("login") or e.pop("actor")["login"]
             author == IF Has(e.author) THEN e.author ELSE e.actor
             actorLeft == Has(e.author) /\ Has(e.actor)
             stateOk == Has(e.state) <=> (class = "PRReviewWrapper")
         IN  IF ~standardise \/ actorLeft \/ ~stateOk
             THEN [err |-> "TypeError", ev |-> <<>>]
             ELSE [err |-> "",
                   ev |-> <<Event(class, Get(author), e.createdAt, e.state)>>]

(* The event loop of one PR node: events, or the first exception *)
RECURSIVE WrapEvents(_, _, _)
WrapEvents(raw, i, events) ==
    IF i > Len(raw) THEN [err |-> "", events |-> events]
    ELSE IF IsCodecov(raw[i]) THEN WrapEvents(raw, i + 1, events)
    ELSE LET w == WrapEvent(raw[i])
         IN  IF w.err # "" THEN [err |-> w.err, events |-> <<>>]
             ELSE WrapEvents(raw, i + 1, events \o w.ev)

PRNumber(pr_node) == pr_node.url[Len(pr_node.url)]

PRWrapper(pr_node, events) ==
    [number |-> PRNumber(pr_node), author |-> pr_node.author,
     created_at |-> pr_node.createdAt, is_draft |-> pr_node.isDraft,
     merged_at |-> pr_node.mergedAt, timeline_events |-> events]

(* prws[int(pr_num)] = ... on a dict kept in insertion order *)
DictPut(d, pr) ==
    IF \E i \in 1..Len(d) : d[i].number = pr.number
    THEN [i \in 1..Len(d) |-> IF d[i].number = pr.number THEN pr ELSE d[i]]
    ELSE Append(d, pr)

(* The PR loop: the dict of PRWrappers, or the first exception *)
RECURSIVE WrapNodes(_, _, _)
WrapNodes(nodes, i, d) ==
    IF i > Len(nodes) THEN [err |-> "", prws |-> d]
    ELSE IF IsPyup(nodes[i]) THEN WrapNodes(nodes, i + 1, d)
    ELSE LET w == WrapEvents(nodes[i].timelineItems, 1, <<>>)
         IN  IF w.err # "" THEN [err |-> w.err, prws |-> <<>>]
             ELSE WrapNodes(nodes, i + 1, DictPut(d, PRWrapper(nodes[i], w.events)))

----------------------------------------------------------------------------
(* PRWrapper cached properties; pr is a PRWrapper, the tiers are read from   *)
(* pr.repo.reviewer_teams                                                    *)

(* list.sort(key = created_at): stable, oldest first *)
RECURSIVE InsertByCreatedAt(_, _)
InsertByCreatedAt(sorted, e) ==
    IF sorted = <<>> THEN <<e>>
    ELSE IF sorted[Len(sorted)].created_at <= e.created_at THEN Append(sorted, e)
    ELSE Append(InsertByCreatedAt(SubSeq(sorted, 1, Len(sorted) - 1), e),
                sorted[Len(sorted)])

RECURSIVE SortByCreatedAt(_)
SortByCreatedAt(events) ==
    IF events = <<>> THEN <<>>
    ELSE InsertByCreatedAt(SortByCreatedAt(SubSeq(events, 1, Len(events) - 1)),
                           events[Len(events)])

IsReviewOrComment(e) == e.class \in {"PRReviewWrapper", "PRCommentWrapper"}

(* Mutant: the PR author's own reviews and comments are kept *)
reviews_and_comments_with_author(pr) ==
    SortByCreatedAt(SelectSeq(pr.timeline_events, IsReviewOrComment))

reviews_and_comments(pr) ==
    LET review_events == SelectSeq(pr.timeline_events, IsReviewOrComment)
        NotByAuthor(review) == review.author # pr.author
        events_not_by_author == SelectSeq(review_events, NotByAuthor)
    IN  SortByCreatedAt(events_not_by_author)

reviews_by_tier1(pr) ==
    LET InTier(review) == review.author \in reviewer_teams.tier1
    IN  IF reviews_and_comments(pr) = <<>> THEN <<>>
        ELSE SelectSeq(reviews_and_comments(pr), InTier)

(* Mutant: an author of tier1 is not looked up in tier2 *)
reviews_by_tier2_after_tier1(pr) ==
    LET InTier(review) == /\ review.author \in reviewer_teams.tier2
                          /\ review.author \notin reviewer_teams.tier1
    IN  SelectSeq(reviews_and_comments(pr), InTier)

reviews_by_tier2(pr) ==
    LET InTier(review) == review.author \in reviewer_teams.tier2
    IN  IF reviews_and_comments(pr) = <<>> THEN <<>>
        ELSE SelectSeq(reviews_and_comments(pr), InTier)

Authors(events) == {events[i].author : i \in 1..Len(events)}

reviews_by_non_tier(pr) ==
    Authors(reviews_and_comments(pr))
        \ (Authors(reviews_by_tier1(pr)) \cup Authors(reviews_by_tier2(pr)))

first_review(pr) ==
    IF reviews_and_comments(pr) = <<>> THEN Missing
    ELSE Present(reviews_and_comments(pr)[1])

IsReady(e) == e.class = "ReadyWrapper"

ready_for_review(pr) ==
    LET ready_events == SortByCreatedAt(SelectSeq(pr.timeline_events, IsReady))
    IN  IF ready_events # <<>> THEN ready_events
        ELSE <<Event("ReadyWrapper", pr.author, pr.created_at, Missing)>>

(* Mutant: a review at the very time of the ready event counts as after it *)
comment_comparison_date_ge(pr) ==
    IF ~Has(first_review(pr)) THEN Raised("AttributeError")
    ELSE IF Get(first_review(pr)).created_at >= ready_for_review(pr)[1].created_at
         THEN Val(ready_for_review(pr)[1].created_at)
         ELSE Val(pr.created_at)

(* Reading .created_at of first_review when it is None raises AttributeError *)
comment_comparison_date(pr) ==
    IF ~Has(first_review(pr)) THEN Raised("AttributeError")
    ELSE IF Get(first_review(pr)).created_at > ready_for_review(pr)[1].created_at
         THEN Val(ready_for_review(pr)[1].created_at)
         ELSE Val(pr.created_at)

(* round(ticks * TickSeconds / SECONDS_TO_HOURS, 1), in tenths of an hour;   *)
(* a tie goes to the even tenth                                              *)
HoursRounded(ticks) ==
    LET num == ticks * TickSeconds * 10
        q == num \div SECONDS_TO_HOURS
        r == num - q * SECONDS_TO_HOURS
    IN  IF 2 * r < SECONDS_TO_HOURS THEN q
        ELSE IF 2 * r > SECONDS_TO_HOURS THEN q + 1
        ELSE IF q % 2 = 0 THEN q ELSE q + 1

(* round((t - comment_comparison_date).total_seconds() / SECONDS_TO_HOURS, 1) *)
HoursSinceComparisonDate(pr, t) ==
    IF comment_comparison_date(pr).tag # "Val" THEN comment_comparison_date(pr)
    ELSE Val(HoursRounded(t - comment_comparison_date(pr).v))

(* Mutant: the draft flag is not looked at *)
hours_to_first_review_ignoring_draft(pr) ==
    IF ~Has(first_review(pr)) THEN NoneValue
    ELSE HoursSinceComparisonDate(pr, Get(first_review(pr)).created_at)

hours_to_first_review(pr) ==
    IF ~Has(first_review(pr)) \/ pr.is_draft THEN NoneValue
    ELSE HoursSinceComparisonDate(pr, Get(first_review(pr)).created_at)

hours_to_tier1(pr) ==
    IF reviews_by_tier1(pr) = <<>> THEN NoneValue
    ELSE HoursSinceComparisonDate(pr, reviews_by_tier1(pr)[1].created_at)

hours_to_tier2(pr) ==
    IF reviews_by_tier2(pr) = <<>> THEN NoneValue
    ELSE HoursSinceComparisonDate(pr, reviews_by_tier2(pr)[1].created_at)

(* Mutant: the first tier1 item is taken, approved or not *)
hours_from_tier1_to_tier2_unapproved(pr) ==
    IF reviews_by_tier1(pr) = <<>> \/ reviews_by_tier2(pr) = <<>> THEN NoneValue
    ELSE Val(HoursRounded(reviews_by_tier2(pr)[1].created_at
                          - reviews_by_tier1(pr)[1].created_at))

hours_from_tier1_to_tier2(pr) ==
    LET IsApproved(r) == r.state = Present("APPROVED")
        approved_reviews == SelectSeq(reviews_by_tier1(pr), IsApproved)
    IN  IF approved_reviews = <<>> \/ reviews_by_tier2(pr) = <<>> THEN NoneValue
        ELSE Val(HoursRounded(reviews_by_tier2(pr)[1].created_at
                              - approved_reviews[1].created_at))

(* Every cached property of a PRWrapper, as the cache holds them once read *)
Properties(pr) ==
    [reviews_and_comments |-> reviews_and_comments(pr),
     reviews_by_tier1 |-> reviews_by_tier1(pr),
     reviews_by_tier2 |-> reviews_by_tier2(pr),
     reviews_by_non_tier |-> reviews_by_non_tier(pr),
     first_review |-> first_review(pr),
     comment_comparison_date |-> comment_comparison_date(pr),
     ready_for_review |-> ready_for_review(pr),
     hours_to_first_review |-> hours_to_first_review(pr),
     hours_to_tier1 |-> hours_to_tier1(pr),
     hours_to_tier2 |-> hours_to_tier2(pr),
     hours_from_tier1_to_tier2 |-> hours_from_tier1_to_tier2(pr)]

----------------------------------------------------------------------------
(* RepoWrapper.reviewer_team_actions *)

(* Mutant: both tiers are keyed by the members of tier1 *)
InitialActions_tier1_twice(teams) ==
    [tier1 |-> [m \in teams.tier1 \cup {"opened"} |-> <<>>],
     tier2 |-> [m \in teams.tier1 \cup {"merged"} |-> <<>>]]

(* The dict before the PR loop: an empty list per member of each tier, then  *)
(* the "opened" and "merged" lists                                           *)
InitialActions(teams) ==
    [tier1 |-> [m \in teams.tier1 \cup {"opened"} |-> <<>>],
     tier2 |-> [m \in teams.tier2 \cup {"merged"} |-> <<>>]]

IsReview(r) == r.class = "PRReviewWrapper"

(* d[key].append(item) for every review of the list; a missing key raises *)
RECURSIVE AppendReviews(_, _, _)
AppendReviews(d, reviews, i) ==
    IF i > Len(reviews) THEN [err |-> "", d |-> d]
    ELSE IF reviews[i].author \notin DOMAIN d THEN [err |-> "KeyError", d |-> d]
    ELSE AppendReviews(
             [d EXCEPT ![reviews[i].author] =
                  Append(@, <<reviews[i].created_at, Get(reviews[i].state)>>)],
             reviews, i + 1)

(* The body of the PR loop for one PRWrapper *)
CollectPR(acts, pr) ==
    LET t1_reviews_only == SelectSeq(reviews_by_tier1(pr), IsReview)
        t2_reviews_only == SelectSeq(reviews_by_tier2(pr), IsReview)
        a1 == AppendReviews(acts.tier1, t1_reviews_only, 1)
        opened == [a1.d EXCEPT !["opened"] = Append(@, <<pr.created_at, "ready">>)]
        a2 == AppendReviews(acts.tier2, t2_reviews_only, 1)
        merged == IF Has(pr.merged_at)
                  THEN [a2.d EXCEPT !["merged"] = Append(@, <<Get(pr.merged_at), "merged">>)]
                  ELSE a2.d
    IN  IF a1.err # "" THEN [err |-> a1.err, acts |-> acts]
        ELSE IF a2.err # "" THEN [err |-> a2.err, acts |-> acts]
        ELSE [err |-> "", acts |-> [tier1 |-> opened, tier2 |-> merged]]

RECURSIVE CollectAll(_, _, _)
CollectAll(acts, d, i) ==
    IF i > Len(d) THEN [err |-> "", acts |-> acts]
    ELSE LET c == CollectPR(acts, d[i])
         IN  IF c.err # "" THEN c ELSE CollectAll(c.acts, d, i + 1)

----------------------------------------------------------------------------
(* Steps of the running method *)

NoActions == [tier1 |-> <<>>, tier2 |-> <<>>]

(* reviewer_team_actions up to its call of pull_requests(count=pr_count) *)
reviewer_team_actions_begin ==
    /\ caller = "reviewer_team_actions" /\ pc = "begin"
    /\ reviewer_team_member_actions' = InitialActions(reviewer_teams)
    /\ block_count' = DefaultBlockCount
    /\ pc' = "enter"
    /\ UNCHANGED <<reviewer_teams, remote, caller, count, fetched, gql_pr_cursor,
                   pr_nodes, request, error, prws, cache>>

(* pull_requests up to the while loop *)
pull_requests_enter ==
    /\ pc = "enter"
    /\ block_count' = IF block_count > count THEN count ELSE block_count
    /\ pr_nodes' = <<>>
    /\ fetched' = 0
    /\ gql_pr_cursor' = 0
    /\ pc' = "while"
    /\ UNCHANGED <<reviewer_teams, remote, caller, count, request, error, prws, cache,
                   reviewer_team_member_actions>>

(* The loop test holds: gql_session.execute sends the query *)
pull_requests_execute ==
    /\ pc = "while" /\ fetched < count
    /\ request' = Present([prCursor |-> gql_pr_cursor, blockCount |-> block_count])
    /\ pc' = "execute"
    /\ UNCHANGED <<reviewer_teams, remote, caller, count, block_count, fetched,
                   gql_pr_cursor, pr_nodes, error, prws, cache,
                   reviewer_team_member_actions>>

(* The remote answers with a page of at most blockCount nodes after prCursor; *)
(* the rest of the loop body runs                                              *)
pull_requests_block ==
    /\ pc = "execute"
    /\ \E k \in 0..Min(Get(request).blockCount, Len(remote) - Get(request).prCursor) :
          LET first == Get(request).prCursor + 1
              pr_block == [nodes |-> SubSeq(remote, first, first + k - 1),
                           endCursor |-> Get(request).prCursor + k]
          IN  /\ gql_pr_cursor' = pr_block.endCursor
              /\ pr_nodes' = pr_nodes \o pr_block.nodes
    /\ fetched' = fetched + block_count
    /\ request' = Missing
    /\ pc' = "while"
    /\ UNCHANGED <<reviewer_teams, remote, caller, count, block_count, error, prws,
                   cache, reviewer_team_member_actions>>

(* The loop test fails: the PR loop runs and pull_requests returns or raises *)
pull_requests_wrap ==
    /\ pc = "while" /\ ~(fetched < count)
    /\ LET w == WrapNodes(pr_nodes, 1, <<>>)
       IN  /\ error' = w.err
           /\ prws' = w.prws
           /\ pc' = IF w.err # "" THEN "raised" ELSE "returned"
    /\ UNCHANGED <<reviewer_teams, remote, caller, count, block_count, fetched,
                   gql_pr_cursor, pr_nodes, request, cache,
                   reviewer_team_member_actions>>

(* A caller of pull_requests reads the cached properties of one PRWrapper *)
read_properties(i) ==
    /\ caller = "pull_requests" /\ pc = "returned"
    /\ i \in 1..Len(prws) /\ i \notin DOMAIN cache
    /\ cache' = [j \in DOMAIN cache \cup {i} |->
                    IF j = i THEN Properties(prws[i]) ELSE cache[j]]
    /\ UNCHANGED <<reviewer_teams, remote, caller, count, block_count, fetched,
                   gql_pr_cursor, pr_nodes, request, pc, error, prws,
                   reviewer_team_member_actions>>

(* reviewer_team_actions after pull_requests returned: the PR loop and return *)
reviewer_team_actions_collect ==
    /\ caller = "reviewer_team_actions" /\ pc = "returned"
    /\ LET c == CollectAll(reviewer_team_member_actions, prws, 1)
       IN  /\ error' = c.err
           /\ reviewer_team_member_actions' = c.acts
           /\ pc' = IF c.err # "" THEN "raised" ELSE "done"
    /\ UNCHANGED <<reviewer_teams, remote, caller, count, block_count, fetched,
                   gql_pr_cursor, pr_nodes, request, prws, cache>>

NextPullRequests ==
    \/ pull_requests_enter
    \/ pull_requests_execute
    \/ pull_requests_block
    \/ pull_requests_wrap
    \/ \E i \in DOMAIN prws : read_properties(i)

NextTeamActions ==
    \/ reviewer_team_actions_begin
    \/ pull_requests_enter
    \/ pull_requests_execute
    \/ pull_requests_block
    \/ pull_requests_wrap
    \/ reviewer_team_actions_collect

NextProperties == \E i \in DOMAIN prws : read_properties(i)

----------------------------------------------------------------------------
(* Inputs *)

Times == 0..MaxTime
LaterTimes == 1..MaxTime
NoCache == [j \in {} |-> NoneValue]
Teams(tier1, tier2) == [tier1 |-> tier1, tier2 |-> tier2]

(* A call of pull_requests(count, block_count) about to start *)
InitCall(teams, nodes, c, b) ==
    /\ reviewer_teams = teams /\ remote = nodes
    /\ caller = "pull_requests" /\ pc = "enter"
    /\ count = c /\ block_count = b
    /\ fetched = 0 /\ gql_pr_cursor = 0 /\ pr_nodes = <<>> /\ request = Missing
    /\ error = "" /\ prws = <<>> /\ cache = NoCache
    /\ reviewer_team_member_actions = NoActions

(* pull_requests(count=Len(nodes), block_count=Len(nodes)) has fetched the   *)
(* nodes in one block and returned their PRWrappers                          *)
InitReturned(teams, nodes) ==
    /\ reviewer_teams = teams /\ remote = nodes
    /\ caller = "pull_requests" /\ pc = "returned"
    /\ count = Len(nodes) /\ block_count = Len(nodes)
    /\ fetched = Len(nodes) /\ gql_pr_cursor = Len(nodes) /\ pr_nodes = nodes
    /\ request = Missing
    /\ error = "" /\ prws = WrapNodes(nodes, 1, <<>>).prws /\ cache = NoCache
    /\ reviewer_team_member_actions = NoActions

(* Paging: any count and block_count over a repository of three PRs *)
SampleRemote ==
    <<PRNode(1, "dev", 0, FALSE, Missing, <<IssueComment("alice", 1)>>),
      PRNode(2, "pyup-bot", 0, FALSE, Missing, <<>>),
      PRNode(3, "alice", 0, TRUE, Missing,
             <<ReadyForReviewEvent("alice", 1), PullRequestReview("bob", 2, "APPROVED")>>)>>

InitFetch ==
    \E c \in 0..MaxCount, b \in 0..MaxBlock :
        InitCall(Teams({"alice"}, {"bob"}), SampleRemote, c, b)

SpecFetch == InitFetch /\ [][NextPullRequests]_vars

(* The method runs to completion and the remote answers every query *)
FairSpecFetch == SpecFetch /\ WF_vars(NextPullRequests)

(* Draft and ready transitions: one PR by dev, comments by dev and alice *)
ReadyEvents ==
    {IssueComment(l, t) : l \in {"dev", "alice"}, t \in Times}
        \cup {ReadyForReviewEvent("dev", t) : t \in Times}
        \cup {ConvertToDraftEvent("dev", t) : t \in Times}

ReadyTeams == {Teams({"alice"}, {}), Teams({}, {"alice"}), Teams({}, {})}

InitReady ==
    \E events \in SeqsUpTo(ReadyEvents, MaxEvents), draft \in BOOLEAN,
       teams \in ReadyTeams :
        InitReturned(teams, <<PRNode(1, "dev", 0, draft, Missing, events)>>)

SpecReady == InitReady /\ [][NextProperties]_vars

(* Team actions: reviewer_team_actions(pr_count) over a repository of up to   *)
(* two PRs; bob is in both tiers, erin reviews nothing, zed is in no tier     *)
TeamEvents ==
    {PullRequestReview(l, 1, "APPROVED") : l \in {"alice", "bob", "carol", "zed"}}
        \cup {PullRequestReview("bob", 2, "COMMENTED"), IssueComment("bob", 2)}

MergedPR == PRNode(2, "alice", 0, FALSE, Present(2),
                   <<PullRequestReview("carol", 1, "APPROVED")>>)

TeamTeams == {Teams({"alice", "bob", "erin"}, {"bob", "carol"}), Teams({"alice"}, {})}

InitTeam ==
    \E events \in SeqsUpTo(TeamEvents, MaxEvents), pr_count \in 0..MaxCount,
       teams \in TeamTeams :
        \E nodes \in {<<>>, <<PRNode(1, "dev", 0, FALSE, Missing, events)>>,
                       <<PRNode(1, "dev", 0, FALSE, Missing, events), MergedPR>>} :
            /\ reviewer_teams = teams /\ remote = nodes
            /\ caller = "reviewer_team_actions" /\ pc = "begin"
            /\ count = pr_count /\ block_count = 0
            /\ fetched = 0 /\ gql_pr_cursor = 0 /\ pr_nodes = <<>> /\ request = Missing
            /\ error = "" /\ prws = <<>> /\ cache = NoCache
            /\ reviewer_team_member_actions = NoActions

SpecTeam == InitTeam /\ [][NextTeamActions]_vars

(* Noise: one PR by dev or by pyup-bot, fetched by pull_requests(1, 1), with  *)
(* comments by a reviewer and by the two bots, ready transitions by dev and   *)
(* by codecov, and events of a type that is not in EVENT_CLASS_MAP            *)
NoiseEvents ==
    {IssueComment(l, t) : l \in {"alice", "codecov", "pyup-bot"}, t \in LaterTimes}
        \cup {ReadyForReviewEvent(l, 1) : l \in {"dev", "codecov"}}
        \cup {RawEvent("MergedEvent", Missing, Missing, 1, Missing),
              RawEvent("MergedEvent", Present("codecov"), Missing, 1, Missing)}

InitNoise ==
    \E events \in SeqsUpTo(NoiseEvents, MaxEvents), author \in {"dev", "pyup-bot"} :
        InitCall(Teams({"alice"}, {}), <<PRNode(1, author, 0, FALSE, Missing, events)>>,
                 1, 1)

SpecNoise == InitNoise /\ [][NextPullRequests]_vars

(* Tiers: one PR by dev; alice is tier1, carol tier2, bob in either or both *)
TierEvents ==
    {PullRequestReview("alice", t, st) : t \in Times, st \in {"APPROVED", "COMMENTED"}}
        \cup {IssueComment(l, t) : l \in {"alice", "carol"}, t \in Times}
        \cup {PullRequestReview("bob", t, "APPROVED") : t \in Times}

TierTeams == {Teams({"alice"}, {"carol"}), Teams({"alice", "bob"}, {"bob", "carol"})}

InitTiers ==
    \E events \in SeqsUpTo(TierEvents, MaxEvents), draft \in BOOLEAN,
       teams \in TierTeams :
        InitReturned(teams, <<PRNode(1, "dev", 0, draft, Missing, events)>>)

SpecTiers == InitTiers /\ [][NextProperties]_vars

----------------------------------------------------------------------------
(* C5: for every count >= 0 and block_count >= 0, pull_requests eventually    *)
(* leaves its while loop: the pagination stops once the running requested     *)
(* count reaches count, whatever page sizes the remote returns.               *)
C5_EventuallyStops == <>(pc \in {"returned", "raised"})

(* C5, the steps of the loop: block_count is clamped to count, a query is     *)
(* sent only while fetched < count, and every answered query adds the clamped *)
(* block_count to fetched, not the number of nodes received.                  *)
C5_LoopSteps ==
    [][/\ pc = "enter" => block_count' = Min(block_count, count)
       /\ pc' = "execute" => fetched < count /\ Get(request').blockCount = block_count
       /\ pc = "execute" => fetched' = fetched + block_count /\ block_count' = block_count
       /\ pc = "while" /\ pc' \in {"returned", "raised"} => fetched >= count]_vars

----------------------------------------------------------------------------
(* Vocabulary of the properties, stated on the timeline itself *)

MinOf(S) == CHOOSE x \in S : \A y \in S : x <= y
MaxOf(S) == CHOOSE x \in S : \A y \in S : x >= y

TimelineOf(pr) == {pr.timeline_events[k] : k \in DOMAIN pr.timeline_events}
ReadyTimes(pr) == {e.created_at : e \in {x \in TimelineOf(pr) : x.class = "ReadyWrapper"}}
ReviewsNotByAuthor(pr) ==
    {e \in TimelineOf(pr) :
        e.class \in {"PRReviewWrapper", "PRCommentWrapper"} /\ e.author # pr.author}
ReviewTimes(pr) == {e.created_at : e \in ReviewsNotByAuthor(pr)}

(* C1: with a ReadyTransition at T1 > T0 as the earliest ready event and the  *)
(* first review/comment not by the author at T2, comment_comparison_date is   *)
(* T1 when T2 > T1 and the creation time T0 when T2 <= T1.                     *)
C1_ComparisonDate ==
    \A i \in DOMAIN cache :
        LET pr == prws[i] IN
        (ReadyTimes(pr) # {} /\ ReviewTimes(pr) # {}
            /\ MinOf(ReadyTimes(pr)) > pr.created_at)
        => cache[i].comment_comparison_date =
              IF MinOf(ReviewTimes(pr)) > MinOf(ReadyTimes(pr))
              THEN Val(MinOf(ReadyTimes(pr)))
              ELSE Val(pr.created_at)

(* C1 witness: a comment that precedes the first ready event, compared with   *)
(* the creation time.                                                         *)
C1_Witness ==
    \E i \in DOMAIN cache :
        /\ ReadyTimes(prws[i]) # {} /\ ReviewTimes(prws[i]) # {}
        /\ prws[i].created_at < MinOf(ReviewTimes(prws[i]))
        /\ MinOf(ReviewTimes(prws[i])) < MinOf(ReadyTimes(prws[i]))
        /\ cache[i].comment_comparison_date = Val(prws[i].created_at)

(* C2: a PR with no review or comment by someone other than its author has    *)
(* all four hour metrics None, and none of them raises.                       *)
C2_NoReviewAllNone ==
    \A i \in DOMAIN cache :
        ReviewsNotByAuthor(prws[i]) = {}
        => /\ cache[i].hours_to_first_review = NoneValue
           /\ cache[i].hours_to_tier1 = NoneValue
           /\ cache[i].hours_to_tier2 = NoneValue
           /\ cache[i].hours_from_tier1_to_tier2 = NoneValue

(* C2 witness: a non-draft PR whose only comments are its author's, with a    *)
(* ready transition in its timeline.                                          *)
C2_Witness ==
    \E i \in DOMAIN cache :
        /\ ReviewsNotByAuthor(prws[i]) = {}
        /\ \E e \in TimelineOf(prws[i]) : e.class = "PRCommentWrapper"
        /\ ReadyTimes(prws[i]) # {}
        /\ ~prws[i].is_draft
        /\ reviewer_teams.tier1 # {}

(* C9: a PR whose is_draft flag is true has hours_to_first_review None.       *)
C9_DraftIsNone ==
    \A i \in DOMAIN cache :
        prws[i].is_draft => cache[i].hours_to_first_review = NoneValue

(* C9 witness: a draft PR that has a review by someone else and a ready       *)
(* transition.                                                                *)
C9_Witness ==
    \E i \in DOMAIN cache :
        /\ prws[i].is_draft
        /\ ReviewsNotByAuthor(prws[i]) # {}
        /\ ReadyTimes(prws[i]) # {}

(* C10: with more than one ReadyTransition, hours_to_first_review of a        *)
(* non-draft PR is measured from the latest ready event that is not after the *)
(* first review.                                                              *)
C10_ClosestReady ==
    \A i \in DOMAIN cache :
        LET pr == prws[i]
            readies == SelectSeq(pr.timeline_events, IsReady)
            before == {t \in ReadyTimes(pr) : t <= MinOf(ReviewTimes(pr))}
        IN  (~pr.is_draft /\ Len(readies) > 1 /\ ReviewTimes(pr) # {}
                /\ before # {})
            => cache[i].hours_to_first_review =
                  Val(HoursRounded(MinOf(ReviewTimes(pr)) - MaxOf(before)))

(* C6: hours_from_tier1_to_tier2 is None unless the PR has a tier1 review     *)
(* with state APPROVED and a tier2 review or comment; then it is the time     *)
(* from the earliest such approval to the earliest tier2 item, in hours to    *)
(* one decimal, negative when the tier2 item comes first, whatever the draft  *)
(* flag and the comparison date.                                              *)
C6_Tier1ToTier2 ==
    \A i \in DOMAIN cache :
        LET pr == prws[i]
            approvals == {e \in ReviewsNotByAuthor(pr) :
                             /\ e.class = "PRReviewWrapper"
                             /\ e.state = Present("APPROVED")
                             /\ e.author \in reviewer_teams.tier1}
            tier2 == {e \in ReviewsNotByAuthor(pr) : e.author \in reviewer_teams.tier2}
            gap == MinOf({e.created_at : e \in tier2})
                       - MinOf({e.created_at : e \in approvals})
        IN  cache[i].hours_from_tier1_to_tier2 =
                IF approvals = {} \/ tier2 = {} THEN NoneValue
                ELSE Val(HoursRounded(gap))

(* C6 witness: a draft PR whose first tier2 item precedes the first tier1     *)
(* approval, which itself follows an unapproving tier1 review: a negative     *)
(* number of hours.                                                           *)
C6_Witness ==
    \E i \in DOMAIN cache :
        /\ cache[i].hours_from_tier1_to_tier2.tag = "Val"
        /\ cache[i].hours_from_tier1_to_tier2.v < 0
        /\ prws[i].is_draft
        /\ cache[i].reviews_by_tier1[1].state # Present("APPROVED")

----------------------------------------------------------------------------
Bots == {"pyup-bot", "codecov"}
Returned == pc \in {"returned", "done"}
Finished == pc \in {"returned", "done", "raised"}
FetchedNodes == {pr_nodes[k] : k \in DOMAIN pr_nodes}
NodeOf(pr) == CHOOSE node \in FetchedNodes : node.url[Len(node.url)] = pr.number
NamesCodecovAsAuthor(e) == e.author = Present("codecov")
NotCodecovAsAuthor(e) == ~NamesCodecovAsAuthor(e)
WithoutCodecovAuthors(node) ==
    [node EXCEPT !.timelineItems = SelectSeq(@, NotCodecovAsAuthor)]

(* C3 as stated: no event by pyup-bot or codecov, named under author or under *)
(* actor, is in reviews_and_comments, a tier list, the non-tier authors or    *)
(* ready_for_review, or is the first review.                                  *)
C3_NoBotEvents ==
    \A i \in DOMAIN cache :
        /\ \A list \in {cache[i].reviews_and_comments, cache[i].reviews_by_tier1,
                        cache[i].reviews_by_tier2, cache[i].ready_for_review,
                        cache[i].first_review} :
              Authors(list) \cap Bots = {}
        /\ cache[i].reviews_by_non_tier \cap Bots = {}

(* C3 as amended: a PR whose author is pyup-bot is not in the returned dict,  *)
(* and the events whose raw record names codecov under author leave no trace: *)
(* the PRWrapper and all its cached properties are those of the same PR node  *)
(* with these events taken out.                                               *)
C3_NoiseDropped ==
    /\ Returned => \A k \in DOMAIN prws : prws[k].author # "pyup-bot"
    /\ \A i \in DOMAIN cache :
          LET clean == WithoutCodecovAuthors(NodeOf(prws[i]))
              wrapped == PRWrapper(clean, WrapEvents(clean.timelineItems, 1, <<>>).events)
          IN  /\ Len(prws[i].timeline_events) = Len(clean.timelineItems)
              /\ prws[i] = wrapped
              /\ cache[i] = Properties(wrapped)

(* C3 witness: a codecov comment that is older than the first review by       *)
(* alice, on a PR whose properties were read.                                 *)
C3_Witness ==
    \E i \in DOMAIN cache :
        /\ \E j \in DOMAIN NodeOf(prws[i]).timelineItems :
              LET e == NodeOf(prws[i]).timelineItems[j]
              IN  /\ NamesCodecovAsAuthor(e) /\ e.typename = "IssueComment"
                  /\ cache[i].first_review # Missing
                  /\ e.createdAt < Get(cache[i].first_review).created_at
        /\ Get(cache[i].first_review).author = "alice"
        /\ cache[i].hours_to_first_review.tag = "Val"

(* C8 as stated: when a timeline event of a fetched PR has a type that is not *)
(* in EVENT_CLASS_MAP, pull_requests ends in an error and returns no mapping. *)
C8_UnknownIsFatal ==
    (Finished /\ \E node \in FetchedNodes : \E j \in DOMAIN node.timelineItems :
                    node.timelineItems[j].typename \notin DOMAIN EVENT_CLASS_MAP)
    => pc = "raised" /\ error # "" /\ prws = <<>>

(* C8 as amended: the same for every event that is not a noise exclusion (its *)
(* PR is not by pyup-bot and its raw record does not name codecov as author); *)
(* and when pull_requests returns, every event that is not a noise exclusion  *)
(* has been wrapped.                                                          *)
C8_UnknownIsFatalUnlessNoise ==
    /\ (Finished /\ \E node \in FetchedNodes : \E j \in DOMAIN node.timelineItems :
                        /\ node.timelineItems[j].typename \notin DOMAIN EVENT_CLASS_MAP
                        /\ node.author # "pyup-bot"
                        /\ ~NamesCodecovAsAuthor(node.timelineItems[j]))
       => pc = "raised" /\ error # "" /\ prws = <<>>
    /\ Returned =>
          \A k \in DOMAIN prws :
              Len(prws[k].timeline_events)
                  = Len(WithoutCodecovAuthors(NodeOf(prws[k])).timelineItems)

(* C8 witness: pull_requests raised on an event of unknown type that follows  *)
(* a comment and a dropped codecov comment.                                   *)
C8_Witness ==
    /\ pc = "raised" /\ error = "KeyError"
    /\ \E node \in FetchedNodes :
          /\ Len(node.timelineItems) = 3
          /\ node.timelineItems[1].typename = "IssueComment"
          /\ NamesCodecovAsAuthor(node.timelineItems[2])
          /\ node.timelineItems[3].typename \notin DOMAIN EVENT_CLASS_MAP
          /\ ~NamesCodecovAsAuthor(node.timelineItems[3])

----------------------------------------------------------------------------
ItemsOf(list) == {list[k] : k \in DOMAIN list}
InBothTiers(e) == e.author \in reviewer_teams.tier1 \cap reviewer_teams.tier2
ActionOf(e) == <<e.created_at, Get(e.state)>>

(* C4 as stated: the reviews and comments of an author who is listed in both  *)
(* tiers are in reviews_by_tier1 and not in reviews_by_tier2, and are not in  *)
(* the tier2 member lists of reviewer_team_actions.                           *)
C4_Tier1Only ==
    Returned =>
        \A k \in DOMAIN prws : \A e \in ReviewsNotByAuthor(prws[k]) :
            InBothTiers(e)
            => /\ e \in ItemsOf(reviews_by_tier1(prws[k]))
               /\ e \notin ItemsOf(reviews_by_tier2(prws[k]))
               /\ (pc = "done" /\ e.class = "PRReviewWrapper")
                  => ActionOf(e) \notin ItemsOf(reviewer_team_member_actions.tier2[e.author])

(* C4 as amended: the reviews and comments of an author who is listed in both *)
(* tiers are in both reviews_by_tier1 and reviews_by_tier2, so they feed      *)
(* hours_to_tier2, and reviewer_team_actions records the reviews under the    *)
(* author in both tiers; an author of one tier only is in that tier's list    *)
(* only.                                                                      *)
C4_BothTiers ==
    Returned =>
        \A k \in DOMAIN prws : \A e \in ReviewsNotByAuthor(prws[k]) :
            /\ e \in ItemsOf(reviews_by_tier1(prws[k])) <=> e.author \in reviewer_teams.tier1
            /\ e \in ItemsOf(reviews_by_tier2(prws[k])) <=> e.author \in reviewer_teams.tier2
            /\ InBothTiers(e)
               => /\ hours_to_tier2(prws[k]).tag = "Val"
                  /\ hours_to_tier2(prws[k]).v
                        <= HoursSinceComparisonDate(prws[k], e.created_at).v
                  /\ (pc = "done" /\ e.class = "PRReviewWrapper")
                     => /\ ActionOf(e) \in ItemsOf(reviewer_team_member_actions.tier1[e.author])
                        /\ ActionOf(e) \in ItemsOf(reviewer_team_member_actions.tier2[e.author])

(* C4 witness: reviewer_team_actions is done over a PR reviewed by bob, who   *)
(* is in both tiers, and by nobody else of tier2.                             *)
C4_Witness ==
    /\ pc = "done"
    /\ \E k \in DOMAIN prws :
          /\ \E e \in ReviewsNotByAuthor(prws[k]) :
                InBothTiers(e) /\ e.class = "PRReviewWrapper"
          /\ \A e \in ReviewsNotByAuthor(prws[k]) :
                e.author \in reviewer_teams.tier2 => InBothTiers(e)

ReviewsBy(m) ==
    UNION {{<<k, j>> : j \in {x \in DOMAIN prws[k].timeline_events :
                                 /\ prws[k].timeline_events[x].class = "PRReviewWrapper"
                                 /\ prws[k].timeline_events[x].author = m
                                 /\ prws[k].author # m}} : k \in DOMAIN prws}

====
